---- MODULE Spec2Model ----
(***************************************************************************)
(* NavRaksha offline alerting pipeline.                                    *)
(*                                                                         *)
(* The service worker (src/unnamed/part_000) intercepts requests, queues   *)
(* emergency (SOS) requests that fail on the network in a record of the    *)
(* dynamic cache, and drains that record on a background-sync event.  The  *)
(* page (src/app.js) keeps its own queue in memory and in localStorage.    *)
(*                                                                         *)
(* Every await of the source that touches shared state is one step of the  *)
(* model; awaits that touch only locals are folded into the step before.   *)
(***************************************************************************)
EXTENDS Integers, Sequences, FiniteSets, TLC

\* ------------------------------------------------------------------ bounds
MaxReq    == 2      \* fetch events the service worker handles
MaxClock  == 2      \* readings of Date.now(): 1..MaxClock
MaxFaults == 1      \* cache operations that throw
MaxRuns   == 2      \* runs of the page's syncQueuedEvents
MaxEvents == 2      \* events the page queues
MaxLen    == 3      \* entries of a queue handed to the removal
MaxIds    == 2      \* ids handed to the removal
MaxRemovals == 2    \* times the removal is applied
MaxStatic == 2      \* requests outside /api/ the fetch listener handles

Reqs == 1..MaxReq
Runs == 1..MaxRuns

\* ------------------------------------------------------------------ JSON
\* A text is <<tag, content>>.  A payload is a string that stands for a JSON
\* value: "1e999" is the text of a number beyond the double range, which
\* JSON.parse reads as Infinity and JSON.stringify writes as null.
ReadData(c)  == IF c = "1e999" THEN "Infinity" ELSE c
WriteData(d) == IF d = "Infinity" THEN "null" ELSE d

\* JSON.stringify and JSON.parse (request.json(), response.json()) of a payload
JSONstringify(d) == <<"json", WriteData(d)>>
IsJSON(t) == t[1] = "json"
JSONparse(t) == ReadData(t[2])

RECURSIVE WriteAll(_)
WriteAll(q) ==
    IF q = <<>> THEN <<>>
    ELSE <<[Head(q) EXCEPT !.data = WriteData(@)]>> \o WriteAll(Tail(q))

RECURSIVE ReadAll(_)
ReadAll(q) ==
    IF q = <<>> THEN <<>>
    ELSE <<[Head(q) EXCEPT !.data = ReadData(@)]>> \o ReadAll(Tail(q))

\* JSON.stringify and JSON.parse of a queue: an array of entries with a payload
StringifyQueue(q) == <<"json", WriteAll(q)>>
ParseQueue(t) == ReadAll(t[2])

\* the cache names of this worker, and the names of a previous generation
CACHE_NAME    == "navraksha-v1.0.0"
STATIC_CACHE  == "navraksha-static-v1.0.0"
DYNAMIC_CACHE == "navraksha-dynamic-v1.0.0"
OlderNames    == {"navraksha-static-v0.9.0", "navraksha-dynamic-v0.9.0"}
CacheNames    == {CACHE_NAME, STATIC_CACHE, DYNAMIC_CACHE} \cup OlderNames

STATIC_FILES == {"/", "/index.html", "/styles.css", "/app.js", "/manifest.json",
                 "https://unpkg.com/leaflet@1.9.4/dist/leaflet.css",
                 "https://unpkg.com/leaflet@1.9.4/dist/leaflet.js",
                 "https://cdn.jsdelivr.net/npm/chart.js",
                 "https://cdn.jsdelivr.net/npm/qrcode@1.5.3/build/qrcode.min.js"}

NoCache == [exists |-> FALSE, keys |-> {}]

\* request bodies a client may send to the service worker
Bodies == {<<"json", "sosA">>, <<"json", "1e999">>, <<"text", "garbage">>}
Paths  == {"/api/emergency/sos", "/api/other"}

\* ------------------------------------------------------------------ state
VARIABLES
    now,        \* Date.now()
    net,        \* the remote endpoint: "offline", "reject" (non-2xx), "ack" (2xx)
    store,      \* the '/sos-queue' record of the dynamic cache (a text), or absent
    faults,     \* cache operations that have thrown so far
    req,        \* the fetch-event handlers of the service worker, by request
    drain,      \* the syncSOSQueue run of the current sync event
    syncReg,    \* the 'sos-sync' background-sync registration
    acked,      \* history: requests whose queue entry the remote acknowledged
    enq         \* history: requests whose queue entry was written to the store

swVars == <<now, net, store, faults, req, drain, syncReg, acked, enq>>

VARIABLES
    navOnline,      \* navigator.onLine
    queuedEvents,   \* NavRaksha.queuedEvents, in the page's memory
    localStorage,   \* the 'navraksha_queued_events' item (a text), or absent
    run,            \* the runs of syncQueuedEvents
    trig,           \* triggerSOS awaiting sendSOSRequest, with its sosData
    nextId,         \* the next value of Date.now() + Math.random()
    pageAcked       \* history: ids of the events whose send was answered 2xx

pageVars == <<navOnline, queuedEvents, localStorage, run, trig, nextId, pageAcked>>

VARIABLES
    phase,            \* the worker's state: parsed, installing, installed, activating, activated
    skipWaitingFlag,  \* set by self.skipWaiting()
    oldClients,       \* pages are still controlled by the previous worker
    tiers,            \* CacheStorage: by cache name, whether it exists and its keys
    keyList,          \* activate: the names from caches.keys() still to be handled
    before,           \* history: tiers when the activate event was dispatched
    tiers0,           \* history: tiers when the install event was dispatched
    installError      \* history: cache.addAll rejected during install

lifeVars == <<phase, skipWaitingFlag, oldClients, tiers, keyList, before, tiers0, installError>>

VARIABLES
    remIds,     \* the ids handed to the removal
    rem0,       \* history: the persisted queue before the first removal
    rem1,       \* history: the persisted queue after the first removal
    remN        \* history: removals applied so far

remVars == <<remIds, rem0, rem1, remN>>

VARIABLES
    oldStore,     \* the '/sos-queue' record in the dynamic cache of the previous version
    queueBefore   \* history: the persisted queue when the activate event was dispatched

genVars == <<oldStore, queueBefore>>

VARIABLES
    sreq,         \* the fetch-event handler of a request outside /api/
    puts,         \* the cache.put calls the fetch listener started and did not wait for
    routerPuts,   \* history: the responses the fetch listener has stored
    sn            \* fetch events outside /api/ so far

statVars == <<sreq, puts, routerPuts, sn>>

VARIABLES
    sending,      \* the worker's handler of the fetch that triggerSOS awaits, 0 for none
    settled       \* history: the handlers whose response triggerSOS has received

linkVars == <<sending, settled>>
extVars == <<lifeVars, remVars, genVars, statVars, linkVars>>
vars == <<swVars, pageVars, extVars>>

NoRecord == <<"absent", <<>>>>
NoResp   == [status |-> 0, queued |-> FALSE, id |-> 0, kind |-> "none"]

\* pre, post, solo and quiet are history: the stored queue around the handler's
\* write, and whether no other handler (solo) and no drain (quiet) was in
\* flight during the handler; read and put are history too: the queue that
\* getSOSQueue returned, and how cache.put ended ("none", "ok", "threw")
NewReq == [pc |-> "new", path |-> "", body |-> <<"text", "">>, sosData |-> "",
           sosQueue |-> <<>>, resp |-> NoResp, pre |-> <<>>, post |-> <<>>,
           solo |-> TRUE, quiet |-> TRUE, read |-> <<>>, put |-> "none",
           seen |-> ""]

\* post, clean and during are history: the stored queue when the run ended,
\* whether the run saw no other handler and no throwing cache operation, and the requests
\* whose entry was written while the run was between its read and its write;
\* sent is history too: the bodies POSTed by the run, in order, and wrote:
\* whether the run called setSOSQueue
IdleDrain == [pc |-> "idle", sosQueue |-> <<>>, syncedIds |-> <<>>,
              outcomes |-> <<>>, post |-> <<>>, clean |-> TRUE, during |-> {},
              sent |-> <<>>, wrote |-> FALSE]

\* ------------------------------------------------------------------ helpers
\* req => !syncedIds.includes(req.id)
Includes(ids, x) == \E k \in 1..Len(ids) : ids[k] = x

\* a removal that takes out the first matching entry only
RECURSIVE FilterFirst(_, _)
FilterFirst(q, ids) ==
    IF q = <<>> THEN <<>>
    ELSE IF Includes(ids, Head(q).id) THEN Tail(q)
         ELSE <<Head(q)>> \o FilterFirst(Tail(q), ids)

RECURSIVE Filter(_, _)
Filter(q, ids) ==
    IF q = <<>> THEN <<>>
    ELSE IF Includes(ids, Head(q).id) THEN Filter(Tail(q), ids)
         ELSE <<Head(q)>> \o Filter(Tail(q), ids)

\* what cache.match('/sos-queue') followed by response.json() gives
QueueOf(record) == IF record = NoRecord THEN <<>> ELSE ParseQueue(record)
StoredQueue == QueueOf(store)

\* getSOSQueue: the stored queue, or [] when there is no record or the read throws
getSOSQueue(ok) == IF ok THEN StoredQueue ELSE <<>>

\* setSOSQueue: the record after cache.put, unchanged when the write throws
setSOSQueue(queue, ok) == IF ok THEN StringifyQueue(queue) ELSE store

\* sosQueue.push({id: Date.now(), data: sosData, timestamp: Date.now()});
\* the field r is history only: it names the request and no operation reads it
NewEntry(r, data) == [id |-> now, data |-> data, timestamp |-> now, r |-> r]
\* a push onto the queue as it is stored now instead of the queue read earlier
PushOnStored(q, e) == Append(StoredQueue, e)
Push(q, e) == Append(q, e)

InFlight(r) == req[r].pc \in {"fetch", "get", "push", "put", "respond"}
Draining == drain.pc \in {"get", "loop", "put"}
CanFault == faults < MaxFaults
Oks == IF CanFault THEN {TRUE, FALSE} ELSE {TRUE}
Fault(ok) == IF ok THEN faults ELSE faults + 1

NoItem  == <<"absent", <<>>>>
NewRun  == [pc |-> "new", eventsToSync |-> <<>>, i |-> 0]
NoTrig  == [pc |-> "idle", sosData |-> ""]

\* ------------------------------------------------------------------ Init
\* the page after new NavRaksha() on a first visit: nothing stored, nothing queued
PageInit ==
    /\ navOnline = TRUE
    /\ queuedEvents = <<>>
    /\ localStorage = NoItem
    /\ run = [k \in Runs |-> NewRun]
    /\ trig = NoTrig
    /\ nextId = 1
    /\ pageAcked = {}

\* the worker in service: activated, its static cache filled, nothing else cached
Serving ==
    /\ phase = "activated"
    /\ skipWaitingFlag = TRUE
    /\ oldClients = FALSE
    /\ tiers = [n \in CacheNames |->
                  IF n = STATIC_CACHE THEN [exists |-> TRUE, keys |-> STATIC_FILES]
                  ELSE NoCache]
    /\ keyList = {}
    /\ before = tiers
    /\ tiers0 = tiers
    /\ installError = FALSE
    /\ oldStore = NoRecord
    /\ queueBefore = <<>>

NoRemoval ==
    /\ remIds = <<>>
    /\ rem0 = <<>>
    /\ rem1 = <<>>
    /\ remN = 0

\* no request outside /api/ has been handled, and triggerSOS awaits nothing
NoStatic == [pc |-> "idle", url |-> "", destination |-> "",
             result |-> [kind |-> "none", status |-> 0, type |-> ""],
             hit |-> FALSE, fetched |-> FALSE, failed |-> FALSE]

StaticIdle ==
    /\ sreq = NoStatic
    /\ puts = {}
    /\ routerPuts = {}
    /\ sn = 0

LinkIdle ==
    /\ sending = 0
    /\ settled = {}

WorkerInit ==
    /\ now = 1
    /\ net = "ack"
    /\ store = NoRecord
    /\ faults = 0
    /\ req = [r \in Reqs |-> NewReq]
    /\ drain = IdleDrain
    /\ syncReg = "none"
    /\ acked = {}
    /\ enq = {}

Init ==
    /\ PageInit
    /\ WorkerInit
    /\ Serving
    /\ NoRemoval
    /\ StaticIdle
    /\ LinkIdle

\* ------------------------------------------------------------------ host
\* Date.now() advances
Tick ==
    /\ now < MaxClock
    /\ now' = now + 1
    /\ UNCHANGED <<extVars, pageVars, net, store, faults, req, drain, syncReg, acked, enq>>

\* the remote endpoint becomes unreachable, rejecting or acknowledging
NetChange ==
    /\ \E n \in {"offline", "reject", "ack"} : n # net /\ net' = n
    /\ UNCHANGED <<extVars, pageVars, now, store, faults, req, drain, syncReg, acked, enq>>

\* ------------------------------------------------------------------ fetch
\* the fetch listener for a path under /api/: handleApiRequest starts and
\* awaits fetch(request)
StartFetch(r, p, b) ==
    /\ req[r].pc = "new"
    /\ \A q \in Reqs : q < r => req[q].pc # "new"
    /\ req' = [q \in Reqs |->
                  IF q = r
                  THEN [NewReq EXCEPT !.pc = "fetch", !.path = p, !.body = b,
                          !.quiet = ~Draining,
                          !.solo = \A o \in Reqs : ~InFlight(o)]
                  ELSE IF InFlight(q) THEN [req[q] EXCEPT !.solo = FALSE]
                  ELSE req[q]]
    /\ drain' = IF Draining THEN [drain EXCEPT !.clean = FALSE] ELSE drain

FetchEvent(r) ==
    /\ \E p \in Paths, b \in Bodies : StartFetch(r, p, b)
    /\ UNCHANGED <<extVars, pageVars, now, net, store, faults, syncReg, acked, enq>>

\* new Response(JSON.stringify({...}), {status: ...})
LiveResp(st)  == [status |-> st, queued |-> FALSE, id |-> 0, kind |-> "live"]
GenericResp   == [status |-> 202, queued |-> TRUE, id |-> 0, kind |-> "generic"]
AcceptedResp  == [status |-> 202, queued |-> TRUE, id |-> now, kind |-> "accepted"]
FailedResp    == [status |-> 500, queued |-> FALSE, id |-> 0, kind |-> "failed"]

FetchResolvesOk(n) == n = "ack"

\* await fetch(request) resolves with the response of the remote endpoint,
\* whatever its status; it throws only when the endpoint is not reached
FetchResolves(n) == n # "offline"

\* the status of the live response
StatusOf(n) == IF n = "ack" THEN 200 ELSE 500

IsCriticalAlways(path) == TRUE

\* url.pathname === '/api/emergency/sos'
IsCritical(path) == path = "/api/emergency/sos"

\* handleApiRequest after fetch(request) settles: the live response, or in the
\* catch the generic 202, or handleOfflineSOS up to its await of request.json()
\* seen is history: the remote endpoint as it was when fetch(request) settled
ApiFetchSettles(r) ==
    /\ req[r].pc = "fetch"
    /\ req' = [req EXCEPT ![r] =
         IF FetchResolves(net)
              THEN [@ EXCEPT !.pc = "done", !.seen = net, !.resp = LiveResp(StatusOf(net))]
         ELSE IF ~IsCritical(@.path)
              THEN [@ EXCEPT !.pc = "done", !.seen = net, !.resp = GenericResp]
         ELSE IF ~IsJSON(@.body)
              THEN [@ EXCEPT !.pc = "done", !.seen = net, !.resp = FailedResp]
         ELSE [@ EXCEPT !.pc = "get", !.seen = net, !.sosData = JSONparse(req[r].body)]]
    /\ UNCHANGED <<extVars, pageVars, now, net, store, faults, drain, syncReg, acked, enq>>

\* handleOfflineSOS: const sosQueue = await getSOSQueue()
SOSGetQueue(r) ==
    /\ req[r].pc = "get"
    /\ \E ok \in Oks :
        /\ req' = [req EXCEPT ![r] = [@ EXCEPT !.pc = "push",
                                         !.sosQueue = getSOSQueue(ok),
                                         !.read = getSOSQueue(ok)]]
        /\ faults' = Fault(ok)
    /\ UNCHANGED <<extVars, pageVars, now, net, store, drain, syncReg, acked, enq>>

\* handleOfflineSOS: sosQueue.push({...}) and the call of setSOSQueue
SOSPush(r) ==
    /\ req[r].pc = "push"
    /\ req' = [req EXCEPT ![r] = [@ EXCEPT !.pc = "put",
                  !.sosQueue = Push(@, NewEntry(r, req[r].sosData))]]
    /\ UNCHANGED <<extVars, pageVars, now, net, store, faults, drain, syncReg, acked, enq>>

\* setSOSQueue: await cache.put('/sos-queue', response); a throw is caught and
\* logged inside setSOSQueue
SOSSetQueue(r) ==
    /\ req[r].pc = "put"
    /\ \E ok \in Oks :
        /\ store' = setSOSQueue(req[r].sosQueue, ok)
        /\ faults' = Fault(ok)
        /\ enq' = IF ok THEN enq \cup {r} ELSE enq
        /\ req' = [req EXCEPT ![r] = [@ EXCEPT !.pc = "respond",
                      !.pre = StoredQueue,
                      !.post = QueueOf(store'),
                      !.put = IF ok THEN "ok" ELSE "threw"]]
        /\ drain' = IF ok /\ drain.pc \in {"loop", "put"}
                    THEN [drain EXCEPT !.during = @ \cup {r}] ELSE drain
    /\ UNCHANGED <<extVars, pageVars, now, net, syncReg, acked>>

\* handleOfflineSOS after await setSOSQueue: the notification and the 202
SOSRespond(r) ==
    /\ req[r].pc = "respond"
    /\ req' = [req EXCEPT ![r] = [@ EXCEPT !.pc = "done", !.resp = AcceptedResp,
                                     !.sosQueue = <<>>]]
    /\ UNCHANGED <<extVars, pageVars, now, net, store, faults, drain, syncReg, acked, enq>>

\* ------------------------------------------------------------------ sync
\* the message listener: QUEUE_SOS registers 'sos-sync'; SKIP_WAITING changes
\* nothing in a worker that is activated (SkipWaitingMessage is the waiting one's)
Message(type) ==
    /\ type \in {"SKIP_WAITING", "QUEUE_SOS"}
    /\ syncReg' = IF type # "QUEUE_SOS" THEN syncReg
                  ELSE IF syncReg = "none" THEN "pending"
                  ELSE IF syncReg = "firing" THEN "reregistered"
                  ELSE syncReg
    /\ syncReg' # syncReg
    /\ UNCHANGED <<extVars, pageVars, now, net, store, faults, req, drain, acked, enq>>

\* the sync listener: the host dispatches a pending 'sos-sync' once the device
\* is online, one event per registration at a time; syncSOSQueue starts
SyncEvent ==
    /\ syncReg = "pending"
    /\ net # "offline"
    /\ syncReg' = "firing"
    /\ drain' = [IdleDrain EXCEPT !.pc = "get",
                    !.clean = \A o \in Reqs : ~InFlight(o)]
    /\ req' = [q \in Reqs |-> IF InFlight(q) THEN [req[q] EXCEPT !.quiet = FALSE]
                              ELSE req[q]]
    /\ UNCHANGED <<extVars, pageVars, now, net, store, faults, acked, enq>>

\* the promise given to event.waitUntil resolves (syncSOSQueue catches every
\* error): the registration is done unless it was registered again meanwhile
SyncSettled == IF syncReg = "reregistered" THEN "pending" ELSE "none"

\* syncSOSQueue: const sosQueue = await getSOSQueue(); return when it is empty
DrainGetQueue ==
    /\ drain.pc = "get"
    /\ \E ok \in Oks :
        /\ faults' = Fault(ok)
        /\ LET q == getSOSQueue(ok) IN
            /\ drain' = [drain EXCEPT !.sosQueue = q, !.post = StoredQueue,
                            !.clean = @ /\ ok,
                            !.pc = IF Len(q) = 0 THEN "done" ELSE "loop"]
            /\ syncReg' = IF Len(q) = 0 THEN SyncSettled ELSE syncReg
    /\ UNCHANGED <<extVars, pageVars, now, net, store, req, acked, enq>>

AfterLoopAlways(d) ==
    IF Len(d.outcomes) < Len(d.sosQueue) THEN d ELSE [d EXCEPT !.pc = "put"]

\* after the for loop: remove the synced requests when there are any
AfterLoop(d) ==
    IF Len(d.outcomes) < Len(d.sosQueue) THEN d
    ELSE IF Len(d.syncedIds) > 0 THEN [d EXCEPT !.pc = "put"]
    ELSE [d EXCEPT !.pc = "done", !.post = StoredQueue]

\* one iteration of the for loop: the POST of sosRequest.data settles; only
\* response.ok records the id; a throw is caught inside the loop
DrainDeliver ==
    /\ drain.pc = "loop"
    /\ LET i == Len(drain.outcomes) + 1
           sosRequest == drain.sosQueue[i]
           ok == net = "ack"
           d == [drain EXCEPT
                   !.outcomes = Append(@, ok),
                   !.sent = Append(@, JSONstringify(sosRequest.data)),
                   !.syncedIds = IF ok THEN Append(@, sosRequest.id) ELSE @]
       IN /\ drain' = AfterLoop(d)
          /\ acked' = IF ok THEN acked \cup {sosRequest.r} ELSE acked
          /\ syncReg' = IF AfterLoop(d).pc = "done" THEN SyncSettled ELSE syncReg
    /\ UNCHANGED <<extVars, pageVars, now, net, store, faults, req, enq>>

\* const remainingQueue = sosQueue.filter(...); await setSOSQueue(remainingQueue)
DrainSetQueue ==
    /\ drain.pc = "put"
    /\ \E ok \in Oks :
        LET remainingQueue == Filter(drain.sosQueue, drain.syncedIds) IN
        /\ store' = setSOSQueue(remainingQueue, ok)
        /\ faults' = Fault(ok)
        /\ drain' = [drain EXCEPT !.pc = "done", !.wrote = TRUE,
                        !.post = IF ok THEN remainingQueue ELSE StoredQueue,
                        !.clean = @ /\ ok]
    /\ syncReg' = SyncSettled
    /\ UNCHANGED <<extVars, pageVars, now, net, req, acked, enq>>

\* the host terminates the worker: every handler in flight is gone, the store
\* stays, and the host keeps the sync registration of an unfinished event
Restart ==
    /\ Draining \/ \E r \in Reqs : InFlight(r)
    /\ req' = [q \in Reqs |-> IF InFlight(q)
                              THEN [NewReq EXCEPT !.pc = "killed", !.solo = req[q].solo]
                              ELSE req[q]]
    /\ drain' = IF Draining THEN IdleDrain ELSE drain
    /\ syncReg' = IF syncReg \in {"firing", "reregistered"} THEN "pending" ELSE syncReg
    /\ UNCHANGED <<extVars, pageVars, now, net, store, faults, acked, enq>>

Next ==
    \/ Tick
    \/ NetChange
    \/ \E r \in Reqs : FetchEvent(r)
    \/ \E r \in Reqs : ApiFetchSettles(r)
    \/ \E r \in Reqs : SOSGetQueue(r)
    \/ \E r \in Reqs : SOSPush(r)
    \/ \E r \in Reqs : SOSSetQueue(r)
    \/ \E r \in Reqs : SOSRespond(r)
    \/ \E t \in {"SKIP_WAITING", "QUEUE_SOS"} : Message(t)
    \/ SyncEvent
    \/ DrainGetQueue
    \/ DrainDeliver
    \/ DrainSetQueue
    \/ Restart

Spec == Init /\ [][Next]_vars

\* what the worker and the host do on their own: a handler that is awaiting a
\* settled promise resumes, and a pending sync registration is dispatched once
\* the device is online.  Requests, messages, clock, network and termination
\* are the environment's and are not forced.
WorkerStep ==
    \/ \E r \in Reqs : ApiFetchSettles(r)
    \/ \E r \in Reqs : SOSGetQueue(r)
    \/ \E r \in Reqs : SOSPush(r)
    \/ \E r \in Reqs : SOSSetQueue(r)
    \/ \E r \in Reqs : SOSRespond(r)
    \/ SyncEvent
    \/ DrainGetQueue
    \/ DrainDeliver
    \/ DrainSetQueue

\* The worker with a cache that never throws, never terminated by the host:
\* the setting of the liveness claim.
NoFaultInit ==
    /\ PageInit
    /\ Serving
    /\ NoRemoval
    /\ StaticIdle
    /\ LinkIdle
    /\ now = 1 /\ net = "ack" /\ store = NoRecord /\ faults = MaxFaults
    /\ req = [r \in Reqs |-> NewReq] /\ drain = IdleDrain /\ syncReg = "none"
    /\ acked = {} /\ enq = {}

LiveNext ==
    \/ NetChange
    \/ \E r \in Reqs : FetchEvent(r)
    \/ \E t \in {"SKIP_WAITING", "QUEUE_SOS"} : Message(t)
    \/ WorkerStep

FairSpec == NoFaultInit /\ [][LiveNext]_vars /\ WF_vars(WorkerStep)

\* The fetch handlers on their own while the remote endpoint is unreachable:
\* requests, clock and cache faults, with no sync event and no termination: the
\* setting of concurrent enqueues.
OfflineInit ==
    /\ PageInit
    /\ Serving
    /\ NoRemoval
    /\ StaticIdle
    /\ LinkIdle
    /\ now = 1 /\ net = "offline" /\ store = NoRecord /\ faults = 0
    /\ req = [r \in Reqs |-> NewReq] /\ drain = IdleDrain /\ syncReg = "none"
    /\ acked = {} /\ enq = {}

EnqueueNext ==
    \/ Tick
    \/ \E r \in Reqs : FetchEvent(r)
    \/ \E r \in Reqs : ApiFetchSettles(r)
    \/ \E r \in Reqs : SOSGetQueue(r)
    \/ \E r \in Reqs : SOSPush(r)
    \/ \E r \in Reqs : SOSSetQueue(r)
    \/ \E r \in Reqs : SOSRespond(r)

EnqueueSpec == OfflineInit /\ [][EnqueueNext]_vars

\* The fetch handlers on their own with the remote endpoint in any state and
\* changing: requests and cache faults, with no sync event.
ApiInit ==
    /\ PageInit
    /\ Serving
    /\ NoRemoval
    /\ StaticIdle
    /\ LinkIdle
    /\ now = 1 /\ net \in {"offline", "reject", "ack"} /\ store = NoRecord /\ faults = 0
    /\ req = [r \in Reqs |-> NewReq] /\ drain = IdleDrain /\ syncReg = "none"
    /\ acked = {} /\ enq = {}

ApiNext ==
    \/ NetChange
    \/ \E r \in Reqs : FetchEvent(r)
    \/ \E r \in Reqs : ApiFetchSettles(r)
    \/ \E r \in Reqs : SOSGetQueue(r)
    \/ \E r \in Reqs : SOSPush(r)
    \/ \E r \in Reqs : SOSSetQueue(r)
    \/ \E r \in Reqs : SOSRespond(r)

ApiSpec == ApiInit /\ [][ApiNext]_vars

\* ------------------------------------------------------------------ page
\* response.ok; status 0 stands for a fetch that rejects
Statuses == {200, 202, 500, 0}
ResponseOk(status) == status >= 200 /\ status <= 299

ClearQueue(q, id) == <<>>

\* this.queuedEvents.filter(e => e.id !== id)
RECURSIVE RemoveId(_, _)
RemoveId(q, id) ==
    IF q = <<>> THEN <<>>
    ELSE IF Head(q).id = id THEN RemoveId(Tail(q), id)
         ELSE <<Head(q)>> \o RemoveId(Tail(q), id)

\* queueEvent(type, data): push and localStorage.setItem
QueueEvent(type, data) ==
    /\ queuedEvents' = Append(queuedEvents,
                          [id |-> nextId, type |-> type, data |-> data, timestamp |-> now])
    /\ localStorage' = StringifyQueue(queuedEvents')
    /\ nextId' = nextId + 1

\* triggerSOS: queue the SOS when navigator.onLine is false, else await
\* sendSOSRequest
StartTrigger ==
    /\ trig.pc = "idle"
    /\ nextId <= MaxEvents
    /\ IF navOnline
       THEN /\ trig' = [pc |-> "send", sosData |-> "sosA"]
            /\ UNCHANGED <<queuedEvents, localStorage, nextId>>
       ELSE /\ QueueEvent("sos", "sosA")
            /\ UNCHANGED trig

TriggerSOS ==
    /\ StartTrigger
    /\ UNCHANGED <<extVars, swVars, navOnline, run, pageAcked>>

\* triggerSOS after sendSOSRequest settles: the catch queues the SOS
SettleTrigger(status) ==
    /\ trig.pc = "send"
    /\ trig' = NoTrig
    /\ IF ResponseOk(status)
       THEN UNCHANGED <<queuedEvents, localStorage, nextId>>
       ELSE QueueEvent("sos", trig.sosData)

TriggerSettles(status) ==
    /\ SettleTrigger(status)
    /\ UNCHANGED <<extVars, swVars, navOnline, run, pageAcked>>

\* the position handler: queue a location update when navigator.onLine is false
LocationUpdate ==
    /\ ~navOnline
    /\ nextId <= MaxEvents
    /\ QueueEvent("location_update", "loc")
    /\ UNCHANGED <<extVars, swVars, navOnline, run, trig, pageAcked>>

RECURSIVE SyncFrom(_, _, _)
\* the for loop of syncQueuedEvents from event i up to its next await: a
\* location_update is logged and removed at once, an sos awaits sendSOSRequest
SyncFrom(evs, i, q) ==
    IF i > Len(evs) \/ evs[i].type = "sos" THEN [i |-> i, q |-> q]
    ELSE SyncFrom(evs, i + 1, RemoveId(q, evs[i].id))

\* run k from event i on: suspended on a send, or past the loop, where the
\* queue is written to localStorage
Continue(k, evs, i, q) ==
    LET s == SyncFrom(evs, i, q) IN
    /\ queuedEvents' = s.q
    /\ IF s.i > Len(evs)
       THEN /\ localStorage' = StringifyQueue(s.q)
            /\ run' = [run EXCEPT ![k] = [pc |-> "done", eventsToSync |-> <<>>, i |-> 0]]
       ELSE /\ localStorage' = localStorage
            /\ run' = [run EXCEPT ![k] = [pc |-> "send", eventsToSync |-> evs, i |-> s.i]]

\* syncQueuedEvents: return when nothing is queued, else copy the queue and loop
SyncQueuedEvents ==
    IF Len(queuedEvents) = 0
    THEN UNCHANGED <<queuedEvents, localStorage, run>>
    ELSE \E k \in Runs :
            /\ run[k].pc = "new"
            /\ \A j \in Runs : j < k => run[j].pc # "new"
            /\ Continue(k, queuedEvents, 1, queuedEvents)

\* the window's online event: updateNetworkStatus calls syncQueuedEvents
OnlineEvent ==
    /\ ~navOnline
    /\ navOnline' = TRUE
    /\ SyncQueuedEvents
    /\ UNCHANGED <<extVars, swVars, trig, nextId, pageAcked>>

\* the window's offline event
OfflineEvent ==
    /\ navOnline
    /\ navOnline' = FALSE
    /\ UNCHANGED <<extVars, swVars, queuedEvents, localStorage, run, trig, nextId, pageAcked>>

\* syncQueuedEvents after sendSOSRequest settles: remove the event and go on,
\* or break out of the loop on a throw and write the queue
SyncSendSettles(k, status) ==
    /\ run[k].pc = "send"
    /\ LET evs == run[k].eventsToSync
           event == evs[run[k].i]
       IN IF ResponseOk(status)
          THEN /\ pageAcked' = pageAcked \cup {event.id}
               /\ Continue(k, evs, run[k].i + 1, RemoveId(queuedEvents, event.id))
          ELSE /\ pageAcked' = pageAcked
               /\ queuedEvents' = queuedEvents
               /\ localStorage' = StringifyQueue(queuedEvents)
               /\ run' = [run EXCEPT ![k] = [pc |-> "done", eventsToSync |-> <<>>, i |-> 0]]
    /\ UNCHANGED <<extVars, swVars, navOnline, trig, nextId>>

\* the page is loaded again: new NavRaksha() and loadStoredData; every
\* suspended function of the old page is gone
PageLoad ==
    /\ queuedEvents' = IF localStorage = NoItem THEN <<>> ELSE ParseQueue(localStorage)
    /\ run' = [k \in Runs |-> NewRun]
    /\ trig' = NoTrig
    /\ UNCHANGED <<extVars, swVars, navOnline, localStorage, nextId, pageAcked>>

PageNext ==
    \/ TriggerSOS
    \/ \E st \in Statuses : TriggerSettles(st)
    \/ LocationUpdate
    \/ OnlineEvent
    \/ OfflineEvent
    \/ \E k \in Runs, st \in Statuses : SyncSendSettles(k, st)
    \/ PageLoad

PageSpec == Init /\ [][PageNext]_vars

\* ------------------------------------------------------------------ lifecycle
\* a browser with caches of this and of a previous generation, some of them
\* existing, in which this worker has just been registered; a cache that
\* exists holds at least the document
Existing == [exists |-> TRUE, keys |-> {"/index.html"}]

\* the dynamic cache of the previous version, and an entry its worker queued
OlderDynamic == "navraksha-dynamic-v0.9.0"
OlderEntry   == [id |-> 1, data |-> "sosA", timestamp |-> 1, r |-> 0]
Records      == {NoRecord, StringifyQueue(<<OlderEntry>>)}

\* a cache with its '/sos-queue' record, when it holds one
WithRecord(cache, record) ==
    IF record = NoRecord THEN cache ELSE [cache EXCEPT !.keys = @ \cup {"/sos-queue"}]

LifeInit ==
    /\ PageInit
    /\ NoRemoval
    /\ StaticIdle
    /\ LinkIdle
    /\ now = 1 /\ net = "ack" /\ faults = 0
    /\ req = [r \in Reqs |-> NewReq] /\ drain = IdleDrain /\ syncReg = "none"
    /\ acked = {} /\ enq = {}
    /\ phase = "parsed"
    /\ skipWaitingFlag = FALSE
    /\ oldClients \in BOOLEAN
    /\ \E names \in SUBSET CacheNames :
          /\ store \in IF DYNAMIC_CACHE \in names THEN Records ELSE {NoRecord}
          /\ oldStore \in IF OlderDynamic \in names THEN Records ELSE {NoRecord}
          /\ tiers = [n \in CacheNames |->
                        IF n \notin names THEN NoCache
                        ELSE IF n = DYNAMIC_CACHE THEN WithRecord(Existing, store)
                        ELSE IF n = OlderDynamic THEN WithRecord(Existing, oldStore)
                        ELSE Existing]
    /\ queueBefore = <<>>
    /\ keyList = {}
    /\ before = tiers
    /\ tiers0 = tiers
    /\ installError = FALSE

\* caches.open(name): the cache, created empty when it does not exist
CachesOpen(t, name) ==
    IF t[name].exists THEN t ELSE [t EXCEPT ![name] = [exists |-> TRUE, keys |-> {}]]

\* the install listener up to cache.addAll: caches.open(STATIC_CACHE)
InstallEvent ==
    /\ phase = "parsed"
    /\ phase' = "installing"
    /\ tiers' = CachesOpen(tiers, STATIC_CACHE)
    /\ tiers0' = tiers
    /\ UNCHANGED <<swVars, pageVars, remVars, statVars, linkVars, genVars, skipWaitingFlag, oldClients, keyList,
                   before, installError>>

\* cache.addAll(STATIC_FILES) settles: it adds every file, or none when the
\* fetch of some file failed.  Then self.skipWaiting() runs; a rejection skips
\* it and ends in the catch, which logs.  Either way the promise given to
\* event.waitUntil resolves and the host takes the worker as installed.
InstallSettles ==
    /\ phase = "installing"
    /\ \E failed \in SUBSET STATIC_FILES :
        IF failed = {}
        THEN /\ tiers' = [tiers EXCEPT ![STATIC_CACHE].keys = @ \cup STATIC_FILES]
             /\ skipWaitingFlag' = TRUE
             /\ installError' = installError
        ELSE /\ tiers' = tiers
             /\ skipWaitingFlag' = skipWaitingFlag
             /\ installError' = TRUE
    /\ phase' = "installed"
    /\ UNCHANGED <<swVars, pageVars, remVars, statVars, linkVars, genVars, oldClients, keyList, before, tiers0>>

\* the message listener of the waiting worker: SKIP_WAITING calls self.skipWaiting()
SkipWaitingMessage ==
    /\ phase = "installed"
    /\ ~skipWaitingFlag
    /\ skipWaitingFlag' = TRUE
    /\ UNCHANGED <<swVars, pageVars, remVars, statVars, linkVars, genVars, phase, oldClients, tiers, keyList,
                   before, tiers0, installError>>

\* the last page controlled by the previous worker is closed
ClientsClose ==
    /\ oldClients
    /\ phase # "activated"
    /\ oldClients' = FALSE
    /\ UNCHANGED <<swVars, pageVars, remVars, statVars, linkVars, genVars, phase, skipWaitingFlag, tiers, keyList,
                   before, tiers0, installError>>

\* a condition with || in place of &&
IsOldCacheEither(cacheName) == cacheName # STATIC_CACHE \/ cacheName # DYNAMIC_CACHE

\* if (cacheName !== STATIC_CACHE && cacheName !== DYNAMIC_CACHE)
IsOldCache(cacheName) == cacheName # STATIC_CACHE /\ cacheName # DYNAMIC_CACHE

\* the host promotes an installed worker once no page is controlled by the
\* previous one or the skip-waiting flag is set; the activate listener takes
\* caches.keys()
ActivateEvent ==
    /\ phase = "installed"
    /\ skipWaitingFlag \/ ~oldClients
    /\ phase' = "activating"
    /\ keyList' = {n \in CacheNames : tiers[n].exists}
    /\ before' = tiers
    /\ queueBefore' = QueueOf(oldStore) \o StoredQueue
    /\ UNCHANGED <<swVars, pageVars, remVars, statVars, linkVars, oldStore,
                   skipWaitingFlag, oldClients, tiers, tiers0, installError>>

\* one name of the list: caches.delete(cacheName) for an old cache, nothing
\* for a current one; a deleted cache takes its '/sos-queue' record with it
ActivateCache(cacheName) ==
    /\ phase = "activating"
    /\ cacheName \in keyList
    /\ keyList' = keyList \ {cacheName}
    /\ tiers' = IF IsOldCache(cacheName) THEN [tiers EXCEPT ![cacheName] = NoCache]
                ELSE tiers
    /\ oldStore' = IF IsOldCache(cacheName) /\ cacheName = OlderDynamic
                   THEN NoRecord ELSE oldStore
    /\ store' = IF IsOldCache(cacheName) /\ cacheName = DYNAMIC_CACHE
                 THEN NoRecord ELSE store
    /\ UNCHANGED <<pageVars, remVars, statVars, linkVars, queueBefore, now, net, faults,
                   req, drain, syncReg, acked, enq, phase, skipWaitingFlag, oldClients,
                   before, tiers0, installError>>

\* Promise.all resolves: self.clients.claim(), and the worker is activated
ActivateSettles ==
    /\ phase = "activating"
    /\ keyList = {}
    /\ phase' = "activated"
    /\ oldClients' = FALSE
    /\ UNCHANGED <<swVars, pageVars, remVars, statVars, linkVars, genVars, skipWaitingFlag, tiers, keyList,
                   before, tiers0, installError>>

RuntimeCacheStatic == STATIC_CACHE

\* the cache every write of the running worker goes to
RuntimeCache == DYNAMIC_CACHE

\* caches.open(RuntimeCache) and cache.put(key, ...)
CachePut(t, key) ==
    [CachesOpen(t, RuntimeCache) EXCEPT ![RuntimeCache].keys = @ \cup {key}]

\* the activated worker stores a response: caches.open(DYNAMIC_CACHE) and cache.put
DynamicPut(key) ==
    /\ phase = "activated"
    /\ key \notin tiers[DYNAMIC_CACHE].keys
    /\ tiers' = CachePut(tiers, key)
    /\ UNCHANGED <<swVars, pageVars, remVars, statVars, linkVars, genVars, phase, skipWaitingFlag, oldClients,
                   keyList, before, tiers0, installError>>

\* the activated worker queues an SOS: setSOSQueue writes the '/sos-queue'
\* record of the dynamic cache
QueuePut ==
    /\ phase = "activated"
    /\ Len(StoredQueue) < MaxReq
    /\ store' = setSOSQueue(Push(StoredQueue, NewEntry(Len(StoredQueue) + 1, "sosA")), TRUE)
    /\ tiers' = CachePut(tiers, "/sos-queue")
    /\ UNCHANGED <<pageVars, remVars, statVars, linkVars, genVars, now, net, faults, req,
                   drain, syncReg, acked, enq, phase, skipWaitingFlag, oldClients,
                   keyList, before, tiers0, installError>>

LifeNext ==
    \/ InstallEvent
    \/ InstallSettles
    \/ SkipWaitingMessage
    \/ ClientsClose
    \/ ActivateEvent
    \/ \E n \in CacheNames : ActivateCache(n)
    \/ ActivateSettles
    \/ \E key \in {"/logo.png"} : DynamicPut(key)
    \/ QueuePut

LifeSpec == LifeInit /\ [][LifeNext]_vars

\* ------------------------------------------------------------------ cache first
\* The fetch listener for a request outside /api/.

StaticRequests ==
    { [url |-> "/index.html", destination |-> "document"],
      [url |-> "/about",      destination |-> "document"],
      [url |-> "/logo.png",   destination |-> "image"] }

\* what fetch(request) can resolve with
LiveResponses ==
    { [kind |-> "live", status |-> st, type |-> ty] : st \in {200, 404}, ty \in {"basic", "cors"} }

CachedResponse == [kind |-> "cached", status |-> 200, type |-> "basic"]
Undefined      == [kind |-> "undefined", status |-> 0, type |-> ""]

\* caches.match(url): an entry of any existing cache, or undefined
CachesMatch(t, url) ==
    IF \E n \in CacheNames : t[n].exists /\ url \in t[n].keys
    THEN CachedResponse ELSE Undefined

CacheableAnyStatus(response) == response.type = "basic"

\* the negation of: !response || response.status !== 200 || response.type !== 'basic'
Cacheable(response) == response.status = 200 /\ response.type = "basic"

\* event.respondWith(promise): a promise that resolves with something that is
\* not a Response makes the page's fetch fail with a network error
RespondWith(result) ==
    IF result.kind = "undefined" THEN "network error" ELSE "response"

StaticFrame ==
    UNCHANGED <<swVars, pageVars, remVars, linkVars, genVars, phase, skipWaitingFlag,
                oldClients, keyList, before, tiers0, installError>>

\* a fetch event of the activated worker: event.respondWith(caches.match(request)...)
StaticFetchEvent(rq) ==
    /\ phase = "activated"
    /\ sreq.pc \in {"idle", "done"}
    /\ sn < MaxStatic
    /\ sn' = sn + 1
    /\ sreq' = [NoStatic EXCEPT !.pc = "match", !.url = rq.url,
                                !.destination = rq.destination]
    /\ UNCHANGED <<tiers, puts, routerPuts>>
    /\ StaticFrame

\* caches.match(request) settles: the cached response is returned, or the
\* request goes to the network
StaticMatch ==
    /\ sreq.pc = "match"
    /\ LET cachedResponse == CachesMatch(tiers, sreq.url) IN
         sreq' = IF cachedResponse # Undefined
                 THEN [sreq EXCEPT !.pc = "done", !.hit = TRUE, !.result = cachedResponse]
                 ELSE [sreq EXCEPT !.pc = "fetch"]
    /\ UNCHANGED <<tiers, puts, routerPuts, sn>>
    /\ StaticFrame

\* fetch(request) settles. A response that is not cacheable is returned as it
\* is; for a cacheable one caches.open(...).then(cache.put) is started and the
\* response is returned without waiting for it. A rejection goes to the catch.
StaticFetchSettles ==
    /\ sreq.pc = "fetch"
    /\ \/ /\ sreq' = [sreq EXCEPT !.pc = "catch", !.fetched = TRUE, !.failed = TRUE]
          /\ puts' = puts
       \/ \E response \in LiveResponses :
            /\ sreq' = [sreq EXCEPT !.pc = "done", !.fetched = TRUE, !.result = response]
            /\ puts' = IF Cacheable(response)
                       THEN puts \cup {[n |-> sn, url |-> sreq.url,
                                         status |-> response.status, type |-> response.type]}
                       ELSE puts
    /\ UNCHANGED <<tiers, routerPuts, sn>>
    /\ StaticFrame

\* the catch: caches.match('/index.html') for a document, undefined otherwise
StaticCatch ==
    /\ sreq.pc = "catch"
    /\ sreq' = [sreq EXCEPT !.pc = "done",
                            !.result = IF sreq.destination = "document"
                                       THEN CachesMatch(tiers, "/index.html")
                                       ELSE Undefined]
    /\ UNCHANGED <<tiers, puts, routerPuts, sn>>
    /\ StaticFrame

\* a started caches.open(...).then(cache.put) settles; a put that rejects
\* (quota) writes nothing and nobody handles the rejection
PutSettles(p, ok) ==
    /\ p \in puts
    /\ puts' = puts \ {p}
    /\ tiers' = IF ok THEN CachePut(tiers, p.url) ELSE tiers
    /\ routerPuts' = IF ok THEN routerPuts \cup {p} ELSE routerPuts
    /\ UNCHANGED <<sreq, sn>>
    /\ StaticFrame

StaticNext ==
    \/ \E rq \in StaticRequests : StaticFetchEvent(rq)
    \/ StaticMatch
    \/ StaticFetchSettles
    \/ StaticCatch
    \/ \E p \in puts, ok \in BOOLEAN : PutSettles(p, ok)

CacheNext == LifeNext \/ StaticNext

CacheSpec == LifeInit /\ [][CacheNext]_vars

\* ------------------------------------------------------------------ removal
\* the removal of a list of ids from a persisted queue, on its own: any queue
\* of at most MaxLen entries with ids of the clock's range, any list of at
\* most MaxIds ids
Entries == {[id |-> i, data |-> d, timestamp |-> i, r |-> 0] :
              i \in 1..MaxClock, d \in {"sosA", "null"}}

SeqsUpTo(S, n) == UNION {[1..k -> S] : k \in 0..n}

RemoveInit ==
    /\ PageInit
    /\ Serving
    /\ StaticIdle
    /\ LinkIdle
    /\ now = 1 /\ net = "ack" /\ faults = 0
    /\ req = [r \in Reqs |-> NewReq] /\ drain = IdleDrain /\ syncReg = "none"
    /\ acked = {} /\ enq = {}
    /\ \E q \in SeqsUpTo(Entries, MaxLen) :
          /\ store = StringifyQueue(q)
          /\ rem0 = q
          /\ rem1 = q
    /\ remIds \in SeqsUpTo(1..MaxClock, MaxIds)
    /\ remN = 0

\* sosQueue.filter(req => !syncedIds.includes(req.id)) and setSOSQueue of the
\* result, on the queue as it is stored
RemoveByIds ==
    /\ remN < MaxRemovals
    /\ store' = setSOSQueue(Filter(StoredQueue, remIds), TRUE)
    /\ remN' = remN + 1
    /\ rem1' = IF remN = 0 THEN QueueOf(store') ELSE rem1
    /\ UNCHANGED <<pageVars, lifeVars, genVars, statVars, linkVars, now, net, faults,
                   req, drain, syncReg, acked, enq, remIds, rem0>>

RemoveSpec == RemoveInit /\ [][RemoveByIds]_vars

\* ------------------------------------------------------------------ drain
\* syncSOSQueue on its own, over a queue record written before: the message
\* that registers the sync, the sync event and the run, with the remote
\* endpoint in any state and changing.

DrainInit ==
    /\ PageInit
    /\ Serving
    /\ NoRemoval
    /\ StaticIdle
    /\ LinkIdle
    /\ now = 1 /\ net \in {"offline", "reject", "ack"} /\ faults = 0
    /\ \E q \in SeqsUpTo(Entries, MaxReq) :
          store = IF q = <<>> THEN NoRecord ELSE StringifyQueue(q)
    /\ req = [r \in Reqs |-> NewReq] /\ drain = IdleDrain /\ syncReg = "none"
    /\ acked = {} /\ enq = {}

DrainNext ==
    \/ NetChange
    \/ Message("QUEUE_SOS")
    \/ SyncEvent
    \/ DrainGetQueue
    \/ DrainDeliver
    \/ DrainSetQueue

DrainSpec == DrainInit /\ [][DrainNext]_vars

\* ------------------------------------------------------------------ SOS
\* The page and the worker that controls it: the fetch of sendSOSRequest is
\* the worker's fetch event, and what the handler responds with is what the
\* page's fetch resolves with. sending is the request the page awaits (0 when
\* none); settled is history: for each triggerSOS that has completed, the
\* request it sent (0 when it sent none), whether the page took the send as
\* successful, and the id of the event it queued itself (0 when none).

SosInit ==
    /\ navOnline \in BOOLEAN
    /\ queuedEvents = <<>> /\ localStorage = NoItem
    /\ run = [k \in Runs |-> NewRun] /\ trig = NoTrig
    /\ nextId = 1 /\ pageAcked = {}
    /\ Serving
    /\ NoRemoval
    /\ StaticIdle
    /\ LinkIdle
    /\ now = 1 /\ net \in {"offline", "reject", "ack"} /\ store = NoRecord /\ faults = 0
    /\ req = [r \in Reqs |-> NewReq] /\ drain = IdleDrain /\ syncReg = "none"
    /\ acked = {} /\ enq = {}

LinkFrame ==
    UNCHANGED <<lifeVars, remVars, genVars, statVars, navOnline, run, pageAcked,
                now, net, store, faults, syncReg, acked, enq>>

\* triggerSOS: with navigator.onLine the POST of sendSOSRequest reaches the
\* worker's fetch listener; without it the SOS is queued by the page
SosTrigger ==
    /\ sending = 0
    /\ StartTrigger
    /\ IF navOnline
       THEN \E r \in Reqs :
               /\ StartFetch(r, "/api/emergency/sos", JSONstringify("sosA"))
               /\ sending' = r
               /\ settled' = settled
       ELSE /\ sending' = sending
            /\ settled' = settled \cup {[r |-> 0, ok |-> FALSE, id |-> nextId]}
            /\ UNCHANGED <<req, drain>>
    /\ LinkFrame

\* the handler has responded: sendSOSRequest returns or throws on
\* !response.ok, and the catch of triggerSOS queues the SOS
SosSettles ==
    /\ sending # 0
    /\ req[sending].pc = "done"
    /\ LET status == req[sending].resp.status IN
        /\ SettleTrigger(status)
        /\ settled' = settled \cup
              {[r |-> sending, ok |-> ResponseOk(status),
                id |-> IF ResponseOk(status) THEN 0 ELSE nextId]}
    /\ sending' = 0
    /\ UNCHANGED <<req, drain>>
    /\ LinkFrame

SosNext ==
    \/ Tick
    \/ NetChange
    \/ SosTrigger
    \/ \E r \in Reqs : ApiFetchSettles(r)
    \/ \E r \in Reqs : SOSGetQueue(r)
    \/ \E r \in Reqs : SOSPush(r)
    \/ \E r \in Reqs : SOSSetQueue(r)
    \/ \E r \in Reqs : SOSRespond(r)
    \/ SosSettles

SosSpec == SosInit /\ [][SosNext]_vars

\* ------------------------------------------------------------------ claims
AllSolo == \A r \in Reqs : req[r].solo
Alone(r) == req[r].solo /\ req[r].quiet
InQueue(r) == \E k \in 1..Len(StoredQueue) : StoredQueue[k].r = r
Holds(q, r) == \E k \in 1..Len(q) : q[k].r = r

RECURSIVE IsSubseq(_, _)
\* s occurs in t, in order
IsSubseq(s, t) ==
    IF s = <<>> THEN TRUE
    ELSE IF t = <<>> THEN FALSE
    ELSE IF Head(s) = Head(t) THEN IsSubseq(Tail(s), Tail(t))
    ELSE IsSubseq(s, Tail(t))

RECURSIVE Unacked(_, _)
\* the entries of q whose delivery attempt (outs) was not acknowledged, in order
Unacked(q, outs) ==
    IF q = <<>> THEN <<>>
    ELSE IF Head(outs) THEN Unacked(Tail(q), Tail(outs))
         ELSE <<Head(q)>> \o Unacked(Tail(q), Tail(outs))

DistinctIds(q) == \A i, j \in 1..Len(q) : i # j => q[i].id # q[j].id

DrainDone == drain.pc = "done" /\ Len(drain.outcomes) = Len(drain.sosQueue)
FirstFailure(k) ==
    /\ k \in 1..Len(drain.outcomes)
    /\ ~drain.outcomes[k]
    /\ \A j \in 1..(k - 1) : drain.outcomes[j]

\* C1: as long as no cache operation has thrown and no two fetch handlers have
\* overlapped, every entry that was written
\* to the queue is still in the persisted queue or was acknowledged (2xx) by
\* the remote endpoint: an entry leaves the queue only after its own delivery
\* was acknowledged.
C1_NoSilentLoss ==
    (faults = 0 /\ AllSolo) => \A r \in enq : InQueue(r) \/ r \in acked

\* C2: within one run of syncSOSQueue no delivery is attempted after a failed
\* one: every attempt but the last of the run was acknowledged.
C2_StopAtFirstFailure ==
    \A j \in 1..(Len(drain.outcomes) - 1) : drain.outcomes[j]

\* C3: when a drain that ran alone over entries with distinct ids ends and
\* the delivery of entry k failed in it, the persisted queue still contains
\* entries k..n in their original order.
C3_TailKept ==
    (DrainDone /\ drain.clean /\ DistinctIds(drain.sosQueue)) =>
        \A k \in 1..Len(drain.sosQueue) :
            FirstFailure(k) =>
                IsSubseq(SubSeq(drain.sosQueue, k, Len(drain.sosQueue)), drain.post)

\* C4: after a drain without interleaved requests and without a cache failure,
\* the persisted queue is the loaded queue without exactly the entries that
\* were acknowledged in this run, the rest in original order.
C4_ExactlyAckedRemoved ==
    (DrainDone /\ drain.clean) =>
        drain.post = Unacked(drain.sosQueue, drain.outcomes)

\* C7: with no throwing cache operation and no overlapping fetch handlers, an
\* entry whose enqueue wrote the queue while a drain was between its
\* read and its write is in the persisted queue when that drain ends.
C7_EnqueueDuringDrainKept ==
    (drain.pc = "done" /\ faults = 0 /\ AllSolo) => \A r \in drain.during : Holds(drain.post, r)

\* C8: the ids of the entries of the persisted queue are pairwise distinct.
C8_UniqueIds == DistinctIds(StoredQueue)

Wrote(r) == req[r].pc \in {"respond", "done"} /\ r \in enq

\* C9: an enqueue that ran alone and wrote the queue appended its entry at the
\* end of the queue that was persisted before: the earlier entries are all
\* there, in the same order, in front of it.
C9_AppendOnly ==
    \A r \in Reqs :
        (Wrote(r) /\ Alone(r)) =>
            /\ Len(req[r].post) = Len(req[r].pre) + 1
            /\ SubSeq(req[r].post, 1, Len(req[r].pre)) = req[r].pre
            /\ req[r].post[Len(req[r].post)].r = r

Offline(r) == req[r].pc = "done" /\ req[r].resp.kind \in {"accepted", "failed"}

\* C10: a critical request with a JSON body, handled alone while the network
\* is unreachable, is answered 202 with queued: true and an id, and the
\* persisted queue is one entry longer after it.
C10_AcceptedAndQueued ==
    \A r \in Reqs :
        (Offline(r) /\ IsJSON(req[r].body) /\ Alone(r)) =>
            /\ req[r].resp.status = 202
            /\ req[r].resp.queued
            /\ req[r].resp.id > 0
            /\ Len(req[r].post) = Len(req[r].pre) + 1

\* C5: if the remote endpoint stays reachable and acknowledging from some
\* point on, every entry in the persisted queue is eventually acknowledged and
\* removed from the queue, whether or not the page posts QUEUE_SOS.
C5_EventuallyDelivered ==
    \A r \in Reqs :
        (<>[](net = "ack")) => (InQueue(r) ~> (r \in acked /\ ~InQueue(r)))

\* C6: at most one drain is in progress at any time: no two runs of
\* syncQueuedEvents are suspended on a delivery together.
C6_SingleDrain == Cardinality({k \in Runs : run[k].pc = "send"}) <= 1

Accepted(r) == req[r].pc = "done" /\ req[r].resp.kind = "accepted"

\* C11: the id in the accepted response of a request that was handled alone
\* with no cache operation throwing is the id of its entry in the queue.
C11_ResponseIdIsEntryId ==
    \A r \in Reqs :
        (Accepted(r) /\ req[r].put = "ok" /\ faults = 0 /\ Alone(r)) =>
            \E k \in 1..Len(req[r].post) :
                req[r].post[k].r = r /\ req[r].post[k].id = req[r].resp.id

\* C12: a request handled alone whose write of the queue threw is answered
\* with an error response that is not queued: true, and the persisted queue is
\* as before.
C12_WriteFailureSurfaces ==
    \A r \in Reqs :
        (req[r].pc = "done" /\ req[r].put = "threw" /\ Alone(r)) =>
            /\ req[r].resp.status >= 400
            /\ ~req[r].resp.queued
            /\ req[r].post = req[r].pre

\* C13: a request has its accepted response only after its write of the queue
\* has completed: the write was made and the entry is in what it stored; a
\* handler that was terminated has returned no response.
C13_AcceptedAfterWrite ==
    \A r \in Reqs :
        /\ req[r].resp.kind = "accepted" => (req[r].put = "ok" /\ Holds(req[r].post, r))
        /\ req[r].pc = "killed" => req[r].resp = NoResp

OldKept == \A n \in CacheNames : IsOldCache(n) => tiers[n] = tiers0[n]

\* C14: when cache.addAll failed during install, the worker is never promoted
\* (it is neither activating nor activated) and every cache of the previous
\* generation is as it was before the install.
C14_FailedInstallNotPromoted ==
    installError => (phase \notin {"activating", "activated"} /\ OldKept)

\* C15: once the worker is activated, whatever caches existed when activate
\* began, no cache exists but the current static and dynamic ones, and each of
\* these two that existed then still exists with what it held.
C15_OnlyCurrentTiers ==
    phase = "activated" =>
        /\ \A n \in CacheNames : tiers[n].exists => n \in {STATIC_CACHE, DYNAMIC_CACHE}
        /\ \A n \in {STATIC_CACHE, DYNAMIC_CACHE} :
              before[n].exists =>
                  (tiers[n].exists /\ before[n].keys \subseteq tiers[n].keys)

C15_Witness ==
    /\ phase = "activated"
    /\ before[STATIC_CACHE].exists /\ before[DYNAMIC_CACHE].exists
    /\ \E n \in OlderNames : before[n].exists
    /\ tiers[DYNAMIC_CACHE].keys = {"/index.html"}

\* the id of an entry is recorded as delivered exactly when its POST was
\* answered 2xx, and after the run an entry that was not is in the stored queue
DeliveredIffAcked ==
    \A k \in 1..Len(drain.outcomes) :
        /\ Includes(drain.syncedIds, drain.sosQueue[k].id) <=> drain.outcomes[k]
        /\ (DrainDone /\ ~drain.outcomes[k]) => Holds(drain.post, drain.sosQueue[k].r)

\* C16: in a drain that ran alone, with no cache operation throwing and no two
\* fetch handlers overlapping before it, the id of an entry is recorded as
\* delivered exactly when the remote answered its POST with 2xx, and when the
\* drain has ended every entry whose POST was not answered 2xx is in the
\* persisted queue.
C16_DeliveredIffAcked ==
    (drain.clean /\ faults = 0 /\ AllSolo) => DeliveredIffAcked

\* the entries of q whose id is not among ids, in order
Kept(q, ids) == SelectSeq(q, LAMBDA e : \A k \in 1..Len(ids) : ids[k] # e.id)

StoredAsReceived(r) ==
    \E k \in 1..Len(req[r].post) :
        req[r].post[k].r = r /\ req[r].post[k].data = req[r].sosData

\* the k-th body POSTed by the drain is the payload received with the request
\* of the entry
SentAsReceived(k) == JSONparse(drain.sent[k]) = req[drain.sosQueue[k].r].sosData

\* C18: with no cache operation throwing, for a request whose entry was
\* written the persisted queue holds an entry of the request whose payload is
\* the payload received, and the body POSTed for an entry in a drain is that
\* payload.
C18_PayloadRoundTrip ==
    faults = 0 =>
        /\ \A r \in Reqs : (req[r].pc = "done" /\ req[r].put = "ok") => StoredAsReceived(r)
        /\ \A k \in 1..Len(drain.sent) :
              req[drain.sosQueue[k].r].pc = "done" => SentAsReceived(k)

\* C19: a write of the queue by an enqueue is not merged with what was written
\* since its read: an entry of another request that was stored before the
\* write and was not in the queue the handler had read is not in the queue
\* after the write (last write wins).
C19_LastWriteWins ==
    \A r, o \in Reqs :
        (r # o /\ req[r].put = "ok" /\ Holds(req[r].pre, o) /\ ~Holds(req[r].read, o)) =>
            ~Holds(req[r].post, o)

\* two enqueues that both read the queue before either wrote it, both answered
\* with the accepted response, and only one of the two entries is persisted
C19_Witness ==
    \E r, o \in Reqs :
        /\ r # o /\ faults = 0 /\ drain.pc = "idle"
        /\ Accepted(r) /\ Accepted(o)
        /\ req[r].put = "ok" /\ req[o].put = "ok"
        /\ ~Holds(req[r].read, o) /\ ~Holds(req[o].read, r)
        /\ Holds(req[r].pre, o)
        /\ InQueue(r) /\ ~InQueue(o)

\* C20: when the worker is terminated and started again, with no cache
\* operation having thrown and no two fetch handlers having overlapped, the
\* queue in the store holds every entry that was written and not acknowledged.
C20_RestartRecovers ==
    [][Restart => ((faults' = 0 /\ AllSolo') =>
                      \A r \in enq' \ acked' : InQueue(r)')]_vars

\* C27: activating a new generation does not discard pending critical events.
\* Once the worker is activated, every entry that was queued when its activate
\* event was dispatched, in the '/sos-queue' record of the previous generation's
\* dynamic cache or of its own, is in the queue the worker reads.
C27_ActivationKeepsQueue ==
    phase = "activated" =>
        \A i \in 1..Len(queueBefore) :
            \E k \in 1..Len(StoredQueue) : StoredQueue[k] = queueBefore[i]

\* what was handled is a live response that qualifies for the dynamic tier
LiveCacheable == sreq.result.kind = "live" /\ Cacheable(sreq.result)

\* C21: cache first. When the handler of a request outside /api/ has completed
\* (in a worker whose install populated the static tier):
\* if a cached entry existed it was returned and no network fetch was made;
\* otherwise a live fetch was made and, when it gave status 200, the copy is in
\* the dynamic tier by the time the response is returned.
C21_CacheFirst ==
    sreq.pc = "done" /\ ~installError =>
        /\ sreq.hit => sreq.result = CachedResponse /\ ~sreq.fetched
        /\ ~sreq.hit => sreq.fetched
        /\ ~sreq.hit /\ LiveCacheable =>
               tiers[DYNAMIC_CACHE].exists /\ sreq.url \in tiers[DYNAMIC_CACHE].keys

\* C22: no cached entry and the live fetch fails. A request for a document gets
\* the offline placeholder document; for any other request the page's fetch
\* fails, it is not answered with an empty or successful result.
C22_FailureFallback ==
    sreq.pc = "done" /\ sreq.failed =>
        IF sreq.destination = "document"
        THEN sreq.result = CachedResponse /\ RespondWith(sreq.result) = "response"
        ELSE RespondWith(sreq.result) = "network error"

\* C23: every response the fetch listener hands to cache.put, pending or
\* written, is a live response with status 200, and every key it wrote is in a
\* cache; a live response with another status is returned without a put.
C23_OnlyStatus200Stored ==
    /\ \A p \in puts \cup routerPuts : p.status = 200
    /\ \A p \in routerPuts : \E n \in CacheNames : tiers[n].exists /\ p.url \in tiers[n].keys
    /\ sreq.pc = "done" /\ sreq.result.kind = "live" /\ sreq.result.status # 200 =>
           /\ RespondWith(sreq.result) = "response"
           /\ ~\E p \in puts \cup routerPuts : p.n = sn

\* a response with status 200 was stored and one with status 404 was returned
C23_Witness ==
    /\ \E p \in routerPuts : p.url \in tiers[DYNAMIC_CACHE].keys /\ p.n # sn
    /\ sreq.pc = "done" /\ sreq.result.kind = "live" /\ sreq.result.status = 404
    /\ sreq.result.type = "basic"

\* C24: once install is over the static tier is never written again, and every
\* write of the activated worker (a cached response, the queue record) adds
\* its key to the dynamic tier only.
C24_StaticWriteOnce ==
    [][ /\ phase \notin {"parsed", "installing"} => tiers'[STATIC_CACHE] = tiers[STATIC_CACHE]
        /\ phase = "activated" =>
               \A n \in CacheNames \ {DYNAMIC_CACHE} : tiers'[n] = tiers[n] ]_vars

\* the static tier as install populated it, beside a dynamic tier holding a
\* response the fetch listener stored and the queue record
C24_Witness ==
    /\ phase = "activated"
    /\ tiers[STATIC_CACHE].keys = STATIC_FILES
    /\ \E p \in routerPuts : p.url \in tiers[DYNAMIC_CACHE].keys /\ p.url \notin STATIC_FILES
    /\ "/sos-queue" \in tiers[DYNAMIC_CACHE].keys /\ store # NoRecord

\* the entry of request r is in no queue: not in the record, not in the queue
\* a handler is about to write
NotQueued(r) ==
    /\ req[r].put = "none"
    /\ r \notin enq
    /\ ~InQueue(r)
    /\ \A q \in Reqs : ~Holds(req[q].sosQueue, r)

\* C25: a request under /api/ other than /api/emergency/sos whose fetch fails
\* on the network is answered with the generic 202 response, and nothing is
\* enqueued for it: its handler writes no queue record.
C25_GenericDeferred ==
    \A r \in Reqs :
        (req[r].pc = "done" /\ req[r].path # "/api/emergency/sos" /\ req[r].seen = "offline") =>
            req[r].resp = GenericResp /\ NotQueued(r)

\* a non-critical request was answered with the generic 202 while an SOS of
\* another request is in the queue
C25_Witness ==
    \E r \in Reqs :
        /\ req[r].pc = "done" /\ req[r].path = "/api/other" /\ req[r].seen = "offline"
        /\ req[r].resp.status = 202
        /\ \E q \in Reqs : q # r /\ InQueue(q)

\* C29: a critical request whose fetch resolves with a non-2xx response is
\* answered with that live response and is not enqueued: its handler writes
\* no queue record.
C29_RejectedNotQueued ==
    \A r \in Reqs :
        (req[r].pc = "done" /\ req[r].path = "/api/emergency/sos" /\ req[r].seen = "reject") =>
            req[r].resp = LiveResp(500) /\ NotQueued(r)

\* an SOS was answered with the live 500 and the queue record, written for an
\* earlier SOS, holds nothing of it
C29_Witness ==
    \E r \in Reqs :
        /\ req[r].pc = "done" /\ req[r].path = "/api/emergency/sos" /\ req[r].seen = "reject"
        /\ req[r].resp.kind = "live" /\ req[r].resp.status = 500
        /\ \E q \in Reqs : q # r /\ InQueue(q)

\* C26: a run of the drain that acknowledged no entry has not called
\* setSOSQueue, and a run that read an empty queue has made no delivery
\* attempt.
C26_NoAckNoWrite ==
    drain.pc = "done" =>
        /\ (\A k \in 1..Len(drain.outcomes) : ~drain.outcomes[k]) =>
               ~drain.wrote /\ drain.syncedIds = <<>>
        /\ drain.sosQueue = <<>> => drain.sent = <<>> /\ drain.outcomes = <<>>

\* a run over two entries ended with every delivery failed, no write, and the
\* queue record as it was
C26_Witness ==
    /\ drain.pc = "done"
    /\ Len(drain.sosQueue) = 2 /\ Len(drain.sent) = 2
    /\ \A k \in 1..Len(drain.outcomes) : ~drain.outcomes[k]
    /\ ~drain.wrote
    /\ StoredQueue = drain.sosQueue

HasId(q, id) == \E k \in 1..Len(q) : q[k].id = id

\* the events of the localStorage record
StoredEvents == IF localStorage = NoItem THEN <<>> ELSE ParseQueue(localStorage)

\* the SOS events of q that no sendSOSRequest of a sync has delivered by the
\* end of the step are still in q after the step
KeepsUnacked(q, qAfter) ==
    \A k \in 1..Len(q) :
        (q[k].type = "sos" /\ q[k].id \notin pageAcked') => HasId(qAfter, q[k].id)

\* C30: the page's queue under overlapping runs of syncQueuedEvents. Every
\* queued event is in the localStorage record as well, and no step, whatever
\* is queued while a run is suspended and however many runs overlap, removes
\* from the in-memory queue or from the record an SOS whose delivery was not
\* acknowledged (response.ok). A location update is removed by its mock sync.
C30_PageQueueKeepsUnacked ==
    /\ [](\A k \in 1..Len(queuedEvents) : HasId(StoredEvents, queuedEvents[k].id))
    /\ [][ /\ KeepsUnacked(queuedEvents, queuedEvents')
           /\ KeepsUnacked(StoredEvents, StoredEvents') ]_vars

\* a run is suspended on a delivery while the queue, in memory and in
\* localStorage, holds an SOS that was queued after the run copied the queue
C30_Witness ==
    \E k \in Runs :
        /\ run[k].pc = "send"
        /\ \E i \in 1..Len(queuedEvents) :
              /\ queuedEvents[i].type = "sos"
              /\ ~HasId(run[k].eventsToSync, queuedEvents[i].id)
              /\ HasId(StoredEvents, queuedEvents[i].id)
              /\ queuedEvents[i].id \notin pageAcked

\* the SOS of a completed triggerSOS is acknowledged by the remote endpoint,
\* or in the worker's queue record, or in the page's localStorage record
SosSafe(s) ==
    IF s.ok
    THEN \/ req[s.r].resp.kind = "live" /\ ResponseOk(req[s.r].resp.status)
         \/ InQueue(s.r)
         \/ s.r \in acked
    ELSE \E k \in 1..Len(StoredEvents) :
            StoredEvents[k].id = s.id /\ StoredEvents[k].type = "sos"

\* C28: after triggerSOS has completed, whatever the online flag and the
\* outcome of the network, the SOS has been acknowledged by the remote endpoint
\* or is in a durable queue, the page's or the worker's; in particular
\* whenever the page took sendSOSRequest as successful and queued nothing.
C28_SosNeverDropped == \A s \in settled : SosSafe(s)

\* ------------------------------------------------------------------ lemmas
\* What is left of C4, C9 and C10 once their failing case is set aside: each
\* holds in every reachable state.
C4_WhenIdsDistinct == DistinctIds(drain.sosQueue) => C4_ExactlyAckedRemoved
C9_WhenCacheSound == faults = 0 => C9_AppendOnly
C10_WhenCacheSound == faults = 0 => C10_AcceptedAndQueued

\* What is left of C13, C16, C18 and C20 once their failing case is set aside.
C13_WhenCacheSound == faults = 0 => C13_AcceptedAfterWrite
C16_WhenIdsDistinct == (drain.clean /\ DistinctIds(drain.sosQueue)) => DeliveredIffAcked
Exact(d) == ReadData(WriteData(d)) = d
C18_WhenExact ==
    /\ \A r \in Reqs :
          (req[r].pc = "done" /\ req[r].put = "ok" /\ Exact(req[r].sosData)) =>
              StoredAsReceived(r)
    /\ \A k \in 1..Len(drain.sent) :
          (req[drain.sosQueue[k].r].pc = "done" /\ Exact(req[drain.sosQueue[k].r].sosData)) =>
              SentAsReceived(k)
C20_RestartKeepsStore == [][Restart => store' = store]_vars

\* C22 when install populated the static tier
C22_WhenInstalled == ~installError => C22_FailureFallback

\* C28 when no cache operation throws
C28_WhenCacheSound == faults = 0 => C28_SosNeverDropped

====
